---- MODULE Spec2Model ----
(***************************************************************************)
(* Model of the two-stage evaluation pipeline: validate.py's main (the     *)
(* validator) and score.py's main (the scorer), coupled only through the   *)
(* results file.  One action per stage run; a run is a one-shot batch      *)
(* process, so a whole run is one step.                                    *)
(*                                                                         *)
(* Text that the code measures or slices (validation_errors) is a sequence *)
(* of one-character strings, so that len() and [:496] are computed.        *)
(***************************************************************************)
EXTENDS Integers, Sequences, FiniteSets, TLC

VARIABLES
    file,   \* the results file on disk (output_file)
    prev,   \* the results file as it was when the last run started
    last    \* what the last run read, called, printed and how it ended

vars == <<file, prev, last>>

(***************************************************************************)
(* Bounds of the model.                                                    *)
(***************************************************************************)
MaxRows   == 2    \* rows of a predictions table
MaxMetric == 1    \* metric values returned by the metric library are 0..MaxMetric
MsgShort  == 30   \* length of a short message of a check
MsgLong   == 200  \* length of a long message of a check (it lists ids)
Slack     == 3    \* sentinel-file lengths run from KeepLen-Slack to MaxErrLen+Slack

(***************************************************************************)
(* Program constants.                                                      *)
(***************************************************************************)
MaxErrLen == 500  \* len(invalid_reasons) > 500
KeepLen   == 496  \* invalid_reasons[:496]
MinVal    == 0    \* min_val=0
MaxVal    == 1    \* max_val=1

Ellipsis == <<".", ".", ".">>

ValidationSkipped == "Submission could not be evaluated due to validation errors."
ScoringFailed     == "Error encountered during scoring; submission not evaluated."
NoValidationWarning ==
    "Validation results not found. Proceeding with scoring but results may be inaccurate."

MetricKeys == {"auc_roc", "auprc"}

(***************************************************************************)
(* Text.                                                                   *)
(***************************************************************************)
Min(a, b) == IF a < b THEN a ELSE b

\* n copies of the character c
Rep(c, n) == [i \in 1..n |-> c]

\* s[:n] of Python
Take(s, n) == SubSeq(s, 1, Min(n, Len(s)))

\* "\n".join(errors)
RECURSIVE Join(_)
Join(errors) ==
    IF errors = <<>> THEN <<>>
    ELSE IF Len(errors) = 1 THEN errors[1]
    ELSE errors[1] \o <<"\n">> \o Join(Tail(errors))

\* filter(None, errors): the empty strings are dropped, the order is kept
RECURSIVE FilterNone(_)
FilterNone(errors) ==
    IF errors = <<>> THEN <<>>
    ELSE IF errors[1] = <<>> THEN FilterNone(Tail(errors))
    ELSE <<errors[1]>> \o FilterNone(Tail(errors))

(***************************************************************************)
(* Input files.                                                            *)
(***************************************************************************)
Ids == {"a", "b"}

\* a float of the probability column: NaN, or a number
NaN    == [nan |-> TRUE, v |-> 0]
Num(x) == [nan |-> FALSE, v |-> x]
Probabilities == {NaN} \cup {Num(x) : x \in (MinVal - 1)..(MaxVal + 1)}

\* IEEE comparisons: every comparison with NaN is false
Lt(p, x) == ~p.nan /\ p.v < x
Gt(p, x) == ~p.nan /\ p.v > x

PredRows == [id : Ids, probability : Probabilities]

SeqUpTo(S, n) == UNION {[1..k -> S] : k \in 0..n}

\* the lengths of the raw text files: empty, one character, and around the limit
TextLens == {0, 1} \cup ((KeepLen - Slack)..(MaxErrLen + Slack))

\* a raw text of length n: all "x", or lines of "x" ended by newlines
Texts ==
    {Rep("x", n) : n \in TextLens}
        \cup {[i \in 1..n |-> IF i % 2 = 0 THEN "\n" ELSE "x"] : n \in TextLens}

\* A predictions file: absent from disk, a text that is no table with the
\* columns id and probability, or such a table.
MissingFile == [kind |-> "missing", text |-> <<>>, rows |-> <<>>]
TextFile(t) == [kind |-> "text", text |-> t, rows |-> <<>>]
Table(rows) == [kind |-> "table", text |-> <<>>, rows |-> rows]

PredFiles ==
    {MissingFile} \cup {TextFile(t) : t \in Texts}
        \cup {Table(r) : r \in SeqUpTo(PredRows, MaxRows)}

\* A goldstandard file: malformed, or a table whose ids are unique keys.
MalformedGold == [kind |-> "malformed", disease |-> <<>>]
GoldTable(d)  == [kind |-> "table", disease |-> d]

GoldFiles ==
    {MalformedGold} \cup {GoldTable(d) : d \in UNION {[S -> {0, 1}] : S \in SUBSET Ids}}

\* the number of files in the goldstandard folder
GsCounts == 0..2

MsgLens == {MsgShort, MsgLong}


\* The predictions-file paths: plain, carrying the sentinel, and two near misses
\* (lower case, cut short).
PlainPath    == <<"p", ".", "c", "s", "v">>
SentinelPath == <<"d", "/", "I", "N", "V", "A", "L", "I", "D", "_", "p">>
LowerPath    == <<"i", "n", "v", "a", "l", "i", "d">>
CutPath      == <<"I", "N", "V", "A", "L", "I">>
PredPaths    == {PlainPath, SentinelPath, LowerPath, CutPath}

\* sub in s, of Python strings
Contains(s, sub) ==
    \E i \in 1..(Len(s) + 1) :
        /\ i + Len(sub) - 1 <= Len(s)
        /\ SubSeq(s, i, i + Len(sub) - 1) = sub

(***************************************************************************)
(* The results file.  It is absent, holds text that is no JSON, holds a    *)
(* JSON value that is no object, or holds a JSON object: a function from   *)
(* its keys to their values.                                               *)
(***************************************************************************)
Absent      == [kind |-> "absent", rec |-> <<>>]
Corrupt     == [kind |-> "corrupt", rec |-> <<>>]
NotAnObject == [kind |-> "other", rec |-> <<>>]
Object(r)   == [kind |-> "object", rec |-> r]

\* json.dumps(res) written to the file
Dump(res) == Object(res)

\* base | overlay of Python dicts: the overlay's keys win, the others are kept
Merge(base, overlay) ==
    [k \in (DOMAIN base) \cup (DOMAIN overlay) |->
        IF k \in DOMAIN overlay THEN overlay[k] ELSE base[k]]

\* res.get(k) == v, for a v that is not None
GetEq(res, k, v) == k \in DOMAIN res /\ res[k] = v

\* bool(res.get(k)), for a string value
Truthy(res, k) == k \in DOMAIN res /\ res[k] # ""

Metrics(res) == [k \in (DOMAIN res) \cap MetricKeys |-> res[k]]

(***************************************************************************)
(* utils.py                                                                *)
(***************************************************************************)
\* extract_gs_file(folder), of a folder that holds n files: the exception it
\* raises, or "" when it returns the one file
extract_gs_file(n) == IF n # 1 THEN "ValueError" ELSE ""

(***************************************************************************)
(* The checks of the validation toolkit.  Each returns "" (the empty text) *)
(* or a message; a message is the check's letter, len times.               *)
(***************************************************************************)
Msg(letter, len) == Rep(letter, len)

IdsOf(rows) == {rows[i].id : i \in DOMAIN rows}

check_duplicate_keys(rows, len) ==
    IF \E i, j \in DOMAIN rows : i < j /\ rows[i].id = rows[j].id
    THEN Msg("D", len) ELSE <<>>

check_missing_keys(goldIds, rows, len) ==
    IF \E g \in goldIds : g \notin IdsOf(rows) THEN Msg("M", len) ELSE <<>>

check_unknown_keys(goldIds, rows, len) ==
    IF \E i \in DOMAIN rows : rows[i].id \notin goldIds THEN Msg("U", len) ELSE <<>>

check_nan_values(rows, len) ==
    IF \E i \in DOMAIN rows : rows[i].probability.nan THEN Msg("N", len) ELSE <<>>

check_values_range(rows, lo, hi, len) ==
    IF \E i \in DOMAIN rows :
          Lt(rows[i].probability, lo) \/ Gt(rows[i].probability, hi)
    THEN Msg("R", len) ELSE <<>>

(***************************************************************************)
(* validate.py                                                             *)
(***************************************************************************)
Returned(errors) == [raised |-> "", errors |-> errors]
Raised(e)        == [raised |-> e, errors |-> <<>>]

\* Variant of validate that returns the list unfiltered.
validateNoFilter(gold, pred, len) ==
    IF gold.kind = "malformed" THEN Raised("ValueError")
    ELSE IF pred.kind = "missing" THEN Raised("FileNotFoundError")
    ELSE IF pred.kind = "text" THEN Returned(<<Msg("S", len)>>)
    ELSE Returned(<<check_duplicate_keys(pred.rows, len),
                    check_missing_keys(DOMAIN gold.disease, pred.rows, len),
                    check_unknown_keys(DOMAIN gold.disease, pred.rows, len),
                    check_nan_values(pred.rows, len),
                    check_values_range(pred.rows, MinVal, MaxVal, len)>>)

\* Variant of validate that leaves the range check out.
validateNoRange(gold, pred, len) ==
    IF gold.kind = "malformed" THEN Raised("ValueError")
    ELSE IF pred.kind = "missing" THEN Raised("FileNotFoundError")
    ELSE IF pred.kind = "text" THEN Returned(<<Msg("S", len)>>)
    ELSE Returned(FilterNone(
             <<check_duplicate_keys(pred.rows, len),
               check_missing_keys(DOMAIN gold.disease, pred.rows, len),
               check_unknown_keys(DOMAIN gold.disease, pred.rows, len),
               check_nan_values(pred.rows, len)>>))

\* validate(gold_file, pred_file): the exception that leaves it, or the list
\* it returns.  The goldstandard is read outside the try; of the reads of the
\* predictions only a ValueError is caught.
validate(gold, pred, len) ==
    IF gold.kind = "malformed" THEN Raised("ValueError")
    ELSE IF pred.kind = "missing" THEN Raised("FileNotFoundError")
    ELSE IF pred.kind = "text" THEN Returned(FilterNone(<<Msg("S", len)>>))
    ELSE Returned(FilterNone(
             <<check_duplicate_keys(pred.rows, len),
               check_missing_keys(DOMAIN gold.disease, pred.rows, len),
               check_unknown_keys(DOMAIN gold.disease, pred.rows, len),
               check_nan_values(pred.rows, len),
               check_values_range(pred.rows, MinVal, MaxVal, len)>>))

\* "INVALID" in predictions_file
IsSentinel(path) == Contains(path, <<"I", "N", "V", "A", "L", "I", "D">>)

\* status = "INVALID" if invalid_reasons else "VALIDATED"
StatusOf(reasons) == IF reasons # <<>> THEN "INVALID" ELSE "VALIDATED"

\* Variant of Truncate that cuts at the limit and appends nothing.
TruncateAtLimit(reasons) ==
    IF Len(reasons) > MaxErrLen THEN Take(reasons, MaxErrLen) ELSE reasons

\* if len(invalid_reasons) > 500: invalid_reasons = invalid_reasons[:496] + "..."
Truncate(reasons) ==
    IF Len(reasons) > MaxErrLen THEN Take(reasons, KeepLen) \o Ellipsis ELSE reasons

\* Variant of ValidationRecord that merges into the record on disk.
ValidationMerged(status, reasons) ==
    Merge(file.rec, [validation_status |-> status, validation_errors |-> reasons])

\* res = {"validation_status": status, "validation_errors": invalid_reasons}
ValidationRecord(status, reasons) ==
    [validation_status |-> status, validation_errors |-> reasons]


\* The first half of main: the error list, or the exception that ends the run.
\* calls lists the functions of the repository the run called.
Errors(calls, errors) == [raised |-> "", calls |-> calls, errors |-> errors]
Abort(calls, e)       == [raised |-> e, calls |-> calls, errors |-> <<>>]

\* Variant of CollectErrors that looks the goldstandard up before the branch.
CollectErrorsLookupFirst(path, pred, gs, gold, len) ==
    IF extract_gs_file(gs) # "" THEN Abort({"extract_gs_file"}, extract_gs_file(gs))
    ELSE IF IsSentinel(path)
    THEN IF pred.kind = "missing" THEN Abort({"extract_gs_file"}, "FileNotFoundError")
         ELSE Errors({"extract_gs_file"}, <<pred.text>>)
    ELSE IF validate(gold, pred, len).raised # ""
         THEN Abort({"extract_gs_file", "validate"}, validate(gold, pred, len).raised)
         ELSE Errors({"extract_gs_file", "validate"}, validate(gold, pred, len).errors)

\* if "INVALID" in predictions_file: ... else: ...
CollectErrors(path, pred, gs, gold, len) ==
    IF IsSentinel(path)
    THEN IF pred.kind = "missing" THEN Abort({}, "FileNotFoundError")
         ELSE Errors({}, <<pred.text>>)
    ELSE IF extract_gs_file(gs) # "" THEN Abort({"extract_gs_file"}, extract_gs_file(gs))
    ELSE IF validate(gold, pred, len).raised # ""
         THEN Abort({"extract_gs_file", "validate"}, validate(gold, pred, len).raised)
         ELSE Errors({"extract_gs_file", "validate"}, validate(gold, pred, len).errors)

\* What a run leaves in last.  An input the run did not read is recorded as <<>>.
NoRun ==
    [stage |-> "none", outcome |-> "none", raised |-> "", calls |-> {},
     path |-> <<>>, pred |-> <<>>, gs |-> <<>>, gold |-> <<>>,
     errors |-> <<>>, raw |-> <<>>, scores |-> <<>>, out |-> <<>>]

\* main of validate.py, run on the given inputs
Validator(path, pred, gs, gold, len) ==
    LET c      == CollectErrors(path, pred, gs, gold, len)
        looked == "extract_gs_file" \in c.calls
        ran    == "validate" \in c.calls
        seen   == [NoRun EXCEPT !.stage = "validate", !.calls = c.calls,
                                !.path = path,
                                !.pred = IF ran \/ ~looked THEN <<pred>> ELSE <<>>,
                                !.gs   = IF looked THEN <<gs>> ELSE <<>>,
                                !.gold = IF ran THEN <<gold>> ELSE <<>>]
        invalid_reasons == Join(c.errors)
        status == StatusOf(invalid_reasons)
    IN  /\ prev' = file
        /\ IF c.raised # ""
           THEN /\ file' = file
                /\ last' = [seen EXCEPT !.outcome = "aborted", !.raised = c.raised]
           ELSE /\ file' = Dump(ValidationRecord(status, Truncate(invalid_reasons)))
                /\ last' = [seen EXCEPT !.outcome = "written", !.errors = c.errors,
                                        !.raw = invalid_reasons, !.out = <<status>>]


(***************************************************************************)
(* score.py                                                                *)
(***************************************************************************)
\* gold.merge(pred, how="left", on="id"): one row for each prediction of a
\* goldstandard id, and one row with a null probability for a goldstandard id
\* that has none.  A row is <<id, row of pred (0: none), disease, probability>>.
Merged(gold, rows) ==
    {<<p[1], p[2], gold.disease[p[1]], rows[p[2]].probability>> :
        p \in {q \in (DOMAIN gold.disease) \X (DOMAIN rows) : rows[q[2]].id = q[1]}}
    \cup {<<g, 0, gold.disease[g], NaN>> :
        g \in {h \in DOMAIN gold.disease : h \notin IdsOf(rows)}}

\* The metric library refuses (with a ValueError) scores that hold a null
\* and labels of fewer than two classes.
MetricsDefined(merged) ==
    /\ \A r \in merged : ~r[4].nan
    /\ Cardinality({r[3] : r \in merged}) >= 2

\* The values the metric library may return: the model does not compute the
\* areas, a run draws them from this set.
MetricValues == {[auc_roc |-> x, auprc |-> x] : x \in 0..MaxMetric}

\* score(gold_file, pred_file): the exception that leaves it, or the metrics
\* it returns; m is what the metric library computes.
score(gold, pred, m) ==
    IF pred.kind = "missing" THEN [raised |-> "FileNotFoundError", scores |-> <<>>]
    ELSE IF pred.kind = "text" \/ gold.kind = "malformed"
    THEN [raised |-> "ValueError", scores |-> <<>>]
    ELSE IF ~MetricsDefined(Merged(gold, pred.rows))
    THEN [raised |-> "ValueError", scores |-> <<>>]
    ELSE [raised |-> "", scores |-> m]

\* res = json.load(out), or the blank record when the file is absent or no JSON
BlankRecord == [validation_status |-> "", validation_errors |-> <<>>]

Load(f) == IF f.kind = "object" THEN f.rec ELSE BlankRecord

\* Variant of SkipsScoring that scores whatever the validation status.
NeverSkips(res) == FALSE

\* res.get("validation_status") == "INVALID"
SkipsScoring(res) == GetEq(res, "validation_status", "INVALID")

Scored(calls, status, errors, scores, out) ==
    [raised |-> "", calls |-> calls, status |-> status, errors |-> errors,
     scores |-> scores, out |-> out]

Crashed(calls, e) ==
    [raised |-> e, calls |-> calls, status |-> "INVALID", errors |-> "",
     scores |-> <<>>, out |-> <<>>]

\* Variant of Evaluate with the goldstandard lookup inside the try.
EvaluateLookupInTry(res, gs, gold, pred, m) ==
    IF SkipsScoring(res) THEN Scored({}, "INVALID", ValidationSkipped, <<>>, <<>>)
    ELSE IF extract_gs_file(gs) = "ValueError"
    THEN Scored({"extract_gs_file"}, "INVALID", ScoringFailed, <<>>, <<"Error encountered">>)
    ELSE IF score(gold, pred, m).raised = ""
    THEN Scored({"extract_gs_file", "score"}, "SCORED", "", score(gold, pred, m).scores, <<>>)
    ELSE IF score(gold, pred, m).raised = "ValueError"
    THEN Scored({"extract_gs_file", "score"}, "INVALID", ScoringFailed, <<>>,
                <<"Error encountered">>)
    ELSE Crashed({"extract_gs_file", "score"}, score(gold, pred, m).raised)

\* Variant of Evaluate that sets status = "SCORED" before score is called.
EvaluateStatusFirst(res, gs, gold, pred, m) ==
    IF SkipsScoring(res) THEN Scored({}, "INVALID", ValidationSkipped, <<>>, <<>>)
    ELSE IF extract_gs_file(gs) # "" THEN Crashed({"extract_gs_file"}, extract_gs_file(gs))
    ELSE IF score(gold, pred, m).raised = ""
    THEN Scored({"extract_gs_file", "score"}, "SCORED", "", score(gold, pred, m).scores, <<>>)
    ELSE IF score(gold, pred, m).raised = "ValueError"
    THEN Scored({"extract_gs_file", "score"}, "SCORED", ScoringFailed, <<>>,
                <<"Error encountered">>)
    ELSE Crashed({"extract_gs_file", "score"}, score(gold, pred, m).raised)

\* The middle of main: the status, the message and the metrics to record, or
\* the exception that ends the run.  The lookup is outside the try; of the
\* exceptions of score only a ValueError is caught.
Evaluate(res, gs, gold, pred, m) ==
    IF SkipsScoring(res) THEN Scored({}, "INVALID", ValidationSkipped, <<>>, <<>>)
    ELSE IF extract_gs_file(gs) # "" THEN Crashed({"extract_gs_file"}, extract_gs_file(gs))
    ELSE IF score(gold, pred, m).raised = ""
    THEN Scored({"extract_gs_file", "score"}, "SCORED", "", score(gold, pred, m).scores, <<>>)
    ELSE IF score(gold, pred, m).raised = "ValueError"
    THEN Scored({"extract_gs_file", "score"}, "INVALID", ScoringFailed, <<>>,
                <<"Error encountered">>)
    ELSE Crashed({"extract_gs_file", "score"}, score(gold, pred, m).raised)

\* Variant of UpdateRecord that writes the new fields alone.
ReplaceRecord(res, status, errors, scores) ==
    Merge([score_status |-> status, score_errors |-> errors], scores)

\* res |= {"score_status": status, "score_errors": errors, **scores}
UpdateRecord(res, status, errors, scores) ==
    Merge(res, Merge([score_status |-> status, score_errors |-> errors], scores))

\* main of score.py, run on the given inputs
Scorer(pred, gs, gold, m) ==
    LET res    == Load(file)
        e      == Evaluate(res, gs, gold, pred, m)
        looked == "extract_gs_file" \in e.calls
        ran    == "score" \in e.calls
        warn   == IF Truthy(res, "validation_status") THEN <<>>
                  ELSE <<NoValidationWarning>>
        seen   == [NoRun EXCEPT !.stage = "score", !.calls = e.calls,
                                !.pred = IF ran THEN <<pred>> ELSE <<>>,
                                !.gs   = IF looked THEN <<gs>> ELSE <<>>,
                                !.gold = IF ran THEN <<gold>> ELSE <<>>]
    IN  /\ prev' = file
        /\ IF file.kind = "other"
           THEN /\ file' = file
                /\ last' = [NoRun EXCEPT !.stage = "score", !.outcome = "aborted",
                                         !.raised = "AttributeError"]
           ELSE IF e.raised # ""
           THEN /\ file' = file
                /\ last' = [seen EXCEPT !.outcome = "aborted", !.raised = e.raised,
                                        !.out = warn]
           ELSE /\ file' = Dump(UpdateRecord(res, e.status, e.errors, e.scores))
                /\ last' = [seen EXCEPT !.outcome = "written", !.scores = e.scores,
                                        !.out = warn \o e.out \o <<e.status>>]


(***************************************************************************)
(* Specifications.                                                         *)
(***************************************************************************)
\* The raw contents of a table are not modelled, so a file read verbatim
\* (one whose path carries the sentinel) is a missing file or a text.
Readable(path, pred) ==
    Contains(path, <<"I", "N", "V", "A", "L", "I", "D">>) => pred.kind # "table"

\* The inputs of the runs of a pipeline: a few files of each kind.
Row(id, x) == [id |-> id, probability |-> x]

PipelinePreds ==
    {MissingFile, TextFile(<<>>), TextFile(Rep("x", 1)),
     Table(<<Row("a", Num(MinVal)), Row("b", Num(MaxVal))>>),
     Table(<<Row("a", Num(MinVal))>>),
     Table(<<Row("a", NaN), Row("b", Num(MaxVal))>>),
     Table(<<Row("a", Num(MinVal)), Row("b", Num(MaxVal + 1))>>)}

PipelineGolds ==
    {MalformedGold,
     GoldTable([i \in {"a", "b"} |-> IF i = "a" THEN 0 ELSE 1]),
     GoldTable([i \in {"a"} |-> 0])}

\* The contents the results file may have before the first run, when it is not
\* the pipeline that made it.
ValidationParts ==
    {<<>>, BlankRecord,
     [validation_status |-> "VALIDATED", validation_errors |-> <<>>],
     [validation_status |-> "INVALID", validation_errors |-> Rep("x", 1)]}

ScoreParts ==
    {<<>>,
     [score_status |-> "INVALID", score_errors |-> ValidationSkipped],
     [score_status |-> "SCORED", score_errors |-> "", auc_roc |-> 0, auprc |-> 0]}

OtherParts == {<<>>, [submitter |-> "team"]}

PriorFiles ==
    {Absent, Corrupt, NotAnObject}
        \cup {Object(Merge(Merge(v, c), o)) :
                v \in ValidationParts, c \in ScoreParts, o \in OtherParts}

Init ==
    /\ file = Absent
    /\ prev = Absent
    /\ last = NoRun

InitAnyFile ==
    /\ file \in PriorFiles
    /\ prev = file
    /\ last = NoRun

\* a run of the validator
ValidateMain ==
    \E path \in {PlainPath, SentinelPath}, pred \in PipelinePreds, gs \in GsCounts,
       gold \in PipelineGolds, len \in {MsgShort} :
        /\ Readable(path, pred)
        /\ Validator(path, pred, gs, gold, len)

\* a run of the scorer
ScoreMain ==
    \E pred \in PipelinePreds, gs \in GsCounts, gold \in PipelineGolds,
       m \in MetricValues :
        Scorer(pred, gs, gold, m)

\* the first run of the validator, on any inputs
ValidateOnce ==
    /\ last.stage = "none"
    /\ \E path \in PredPaths, pred \in PredFiles, gs \in GsCounts,
          gold \in GoldFiles, len \in MsgLens :
           /\ Readable(path, pred)
           /\ Validator(path, pred, gs, gold, len)

Next == ValidateMain \/ ScoreMain

\* the pipeline's runs, in any order, from an absent results file
Spec == Init /\ [][Next]_vars

\* the same, from any results file
SpecAnyFile == InitAnyFile /\ [][Next]_vars

\* one run of the validator, on any inputs
SpecValidate == Init /\ [][ValidateOnce]_vars


(***************************************************************************)
(* Properties.                                                             *)
(***************************************************************************)
ValidatorWrote == last.stage = "validate" /\ last.outcome = "written"
ScorerWrote    == last.stage = "score" /\ last.outcome = "written"

HasMetric(f) == f.kind = "object" /\ (DOMAIN f.rec) \cap MetricKeys # {}

\* the key k is in both records with the same value, or in neither
SameField(k, old, new) ==
    /\ k \in DOMAIN old <=> k \in DOMAIN new
    /\ k \in DOMAIN old => new[k] = old[k]

\* C1: a scorer run that reads validation_status "INVALID" never calls score;
\* it writes score_status "INVALID" and the fixed message, adds no metric key,
\* and leaves validation_status and validation_errors as they were read.
C1_InvalidValidationSkipsScoring ==
    (last.stage = "score" /\ GetEq(prev.rec, "validation_status", "INVALID")) =>
        /\ "score" \notin last.calls
        /\ last.outcome = "written"
        /\ file.kind = "object"
        /\ GetEq(file.rec, "score_status", "INVALID")
        /\ GetEq(file.rec, "score_errors", ValidationSkipped)
        /\ Metrics(file.rec) = Metrics(prev.rec)
        /\ SameField("validation_status", prev.rec, file.rec)
        /\ SameField("validation_errors", prev.rec, file.rec)

\* an INVALID record that already held metrics and a SCORED status is scored again
C1_Witness ==
    /\ ScorerWrote
    /\ GetEq(prev.rec, "validation_status", "INVALID")
    /\ GetEq(prev.rec, "score_status", "SCORED")
    /\ HasMetric(prev)
    /\ GetEq(file.rec, "score_status", "INVALID")

\* the conditions of a conformant predictions table, stated on the inputs
Conformant(gold, rows) ==
    /\ \A i, j \in DOMAIN rows : i # j => rows[i].id # rows[j].id
    /\ \A g \in DOMAIN gold.disease : \E i \in DOMAIN rows : rows[i].id = g
    /\ \A i \in DOMAIN rows : rows[i].id \in DOMAIN gold.disease
    /\ \A i \in DOMAIN rows : ~rows[i].probability.nan
    /\ \A i \in DOMAIN rows :
          /\ rows[i].probability.v >= 0
          /\ rows[i].probability.v <= 1

ValidatedTable ==
    /\ ValidatorWrote
    /\ "validate" \in last.calls
    /\ last.pred[1].kind = "table"

\* C2: for a predictions table that loads, the validator records VALIDATED with
\* empty validation_errors exactly when the table is conformant, and INVALID
\* with non-empty validation_errors otherwise; the status is INVALID exactly
\* when the joined error text is non-empty.
C2_ValidatedIffConformant ==
    ValidatedTable =>
        /\ Conformant(last.gold[1], last.pred[1].rows) <=>
              /\ file.rec.validation_status = "VALIDATED"
              /\ file.rec.validation_errors = <<>>
        /\ ~Conformant(last.gold[1], last.pred[1].rows) <=>
              /\ file.rec.validation_status = "INVALID"
              /\ file.rec.validation_errors # <<>>
        /\ file.rec.validation_status = "INVALID" <=> last.raw # <<>>
        /\ last.raw = Join(last.errors)

\* a conformant table of two rows whose probabilities are the two ends of the range
C2_Witness ==
    /\ ValidatedTable
    /\ Len(last.pred[1].rows) = 2
    /\ {last.pred[1].rows[i].probability : i \in 1..2} = {Num(0), Num(1)}
    /\ Conformant(last.gold[1], last.pred[1].rows)
    /\ file.rec.validation_status = "VALIDATED"

\* C3: joined error text of more than 500 characters is persisted as its first
\* 496 characters and a 3-character ellipsis (499 in all), shorter text is
\* persisted unchanged, so the persisted text never exceeds 500 characters; the
\* status is decided from the untruncated text.
C3_Truncation ==
    ValidatorWrote =>
        /\ Len(last.raw) > 500 =>
              /\ file.rec.validation_errors = SubSeq(last.raw, 1, 496) \o <<".", ".", ".">>
              /\ Len(file.rec.validation_errors) = 499
        /\ Len(last.raw) <= 500 => file.rec.validation_errors = last.raw
        /\ Len(file.rec.validation_errors) <= 500
        /\ file.rec.validation_status = (IF last.raw = <<>> THEN "VALIDATED" ELSE "INVALID")

\* text of 501 characters, the shortest that is truncated
C3_Witness ==
    /\ ValidatorWrote
    /\ Len(last.raw) = 501
    /\ Len(file.rec.validation_errors) = 499


\* the fields a stage itself sets in the run that last wrote
SetByStage ==
    IF last.stage = "validate" THEN {"validation_status", "validation_errors"}
    ELSE {"score_status", "score_errors"} \cup DOMAIN last.scores

\* every field of the old record that the stage does not set is kept
Kept(old, new) ==
    \A k \in (DOMAIN old) \ SetByStage : k \in DOMAIN new /\ new[k] = old[k]

\* C4 (as claimed): after either stage writes the results file, every field set
\* before that the stage does not itself set is still there with its value.
C4_BothStagesMerge ==
    (last.outcome = "written" /\ prev.kind = "object") => Kept(prev.rec, file.rec)

\* C4 (amended): the scorer merges into the record it read; the validator
\* writes a record of exactly validation_status and validation_errors.
C4_ScorerMergesValidatorReplaces ==
    /\ (ScorerWrote /\ prev.kind = "object") => Kept(prev.rec, file.rec)
    /\ ScorerWrote =>
          DOMAIN file.rec = (DOMAIN Load(prev)) \cup SetByStage
    /\ ValidatorWrote =>
          DOMAIN file.rec = {"validation_status", "validation_errors"}

\* the scorer writes over a record that holds a field of neither stage, the
\* validation fields and an earlier score_status
C4_Witness ==
    /\ ScorerWrote
    /\ prev.kind = "object"
    /\ {"submitter", "validation_status", "score_status"} \subseteq DOMAIN prev.rec
    /\ GetEq(file.rec, "submitter", "team")
    /\ GetEq(file.rec, "score_status", "SCORED")

\* the outcome of score on the inputs the last run gave it
ScoreRaised == score(last.gold[1], last.pred[1], <<>>).raised

\* C5: the scorer writes score_status "SCORED" exactly when score returned in
\* that run, and then score_errors is empty and the returned metrics are in the
\* record; when score raises a ValueError the run still writes, with
\* score_status "INVALID" and the fixed message, whatever score_status was there.
C5_ScoredIffScoreReturned ==
    /\ (last.stage = "score" /\ "score" \in last.calls /\ ScoreRaised = "") =>
          /\ last.outcome = "written"
          /\ GetEq(file.rec, "score_status", "SCORED")
          /\ GetEq(file.rec, "score_errors", "")
          /\ DOMAIN last.scores = MetricKeys
          /\ Metrics(file.rec) = last.scores
    /\ (last.stage = "score" /\ "score" \in last.calls /\ ScoreRaised = "ValueError") =>
          /\ last.outcome = "written"
          /\ GetEq(file.rec, "score_status", "INVALID")
          /\ GetEq(file.rec, "score_errors", ScoringFailed)
    /\ (ScorerWrote /\ GetEq(file.rec, "score_status", "SCORED")) =>
          "score" \in last.calls /\ ScoreRaised = ""

\* score raises a ValueError in a run on a record whose score_status was SCORED
C5_Witness ==
    /\ ScorerWrote
    /\ "score" \in last.calls
    /\ ScoreRaised = "ValueError"
    /\ GetEq(prev.rec, "score_status", "SCORED")
    /\ GetEq(file.rec, "score_status", "INVALID")

\* the last run looked the goldstandard folder up and it did not hold one file
LookupFailed == last.gs # <<>> /\ last.gs[1] # 1

\* C6: a validator run on a path without the sentinel and a scorer run on a
\* record whose validation_status is not INVALID look the goldstandard folder
\* up; when the folder does not hold exactly one file the error leaves the run
\* uncaught, nothing is validated or scored, and the results file is as before.
C6_LookupFailureIsFatal ==
    /\ (last.stage = "validate" /\ last.path # SentinelPath) =>
          "extract_gs_file" \in last.calls
    /\ (last.stage = "score" /\ prev.kind # "other"
            /\ ~GetEq(prev.rec, "validation_status", "INVALID")) =>
          "extract_gs_file" \in last.calls
    /\ LookupFailed =>
          /\ last.outcome = "aborted"
          /\ last.raised = "ValueError"
          /\ last.calls = {"extract_gs_file"}
          /\ file = prev

\* the scorer fails the lookup on a record that holds validation fields
C6_Witness ==
    /\ last.stage = "score"
    /\ LookupFailed
    /\ GetEq(prev.rec, "validation_status", "VALIDATED")
    /\ last.outcome = "aborted"

\* C7: from an absent results file, the record never holds a metric entry
\* together with validation_status "INVALID".
C7_NoMetricsWithInvalidValidation ==
    ~(HasMetric(file) /\ GetEq(file.rec, "validation_status", "INVALID"))

\* the validator records INVALID over a record that held metrics
C7_Witness ==
    /\ ValidatorWrote
    /\ HasMetric(prev)
    /\ GetEq(file.rec, "validation_status", "INVALID")

\* the place of a check's message in the fixed order
Place(message) ==
    CASE message[1] = "D" -> 1
      [] message[1] = "M" -> 2
      [] message[1] = "U" -> 3
      [] message[1] = "N" -> 4
      [] message[1] = "R" -> 5
      [] OTHER -> 0

ValidateReturned ==
    last.stage = "validate" /\ "validate" \in last.calls /\ last.raised = ""

\* C8: the list validate returns is the schema error alone when the
\* predictions do not load, and otherwise messages of the checks in the order
\* duplicate, missing, unknown, NaN, range, each at most once, none empty.
C8_ErrorListShape ==
    ValidateReturned =>
        /\ \A i \in DOMAIN last.errors : last.errors[i] # <<>>
        /\ last.pred[1].kind = "text" =>
              Len(last.errors) = 1 /\ last.errors[1][1] = "S"
        /\ last.pred[1].kind = "table" =>
              /\ \A i \in DOMAIN last.errors : Place(last.errors[i]) \in 1..5
              /\ \A i, j \in DOMAIN last.errors :
                    i < j => Place(last.errors[i]) < Place(last.errors[j])

\* some but not all of the checks fail: the list skips the ones that pass
C8_Witness ==
    /\ ValidateReturned
    /\ last.pred[1].kind = "table"
    /\ Len(last.errors) = 2
    /\ Place(last.errors[1]) = 2
    /\ Place(last.errors[2]) = 5

\* C9: on a path that carries the sentinel the validator calls neither the
\* goldstandard lookup nor validate; the file's contents are the error text:
\* persisted (truncated as any error text), INVALID when non-empty and
\* VALIDATED when empty.
C9_SentinelPath ==
    (last.stage = "validate" /\ last.path = SentinelPath) =>
        /\ last.calls = {}
        /\ last.pred[1].kind = "text" =>
              /\ last.outcome = "written"
              /\ last.raw = last.pred[1].text
              /\ file.rec.validation_errors =
                    (IF Len(last.pred[1].text) > 500
                     THEN SubSeq(last.pred[1].text, 1, 496) \o <<".", ".", ".">>
                     ELSE last.pred[1].text)
              /\ file.rec.validation_status =
                    (IF last.pred[1].text = <<>> THEN "VALIDATED" ELSE "INVALID")

\* a sentinel file of several lines is recorded verbatim
C9_Witness ==
    /\ ValidatorWrote
    /\ last.path = SentinelPath
    /\ Len(last.raw) = 500
    /\ last.raw[2] = "\n"
    /\ file.rec.validation_errors = last.pred[1].text
    /\ file.rec.validation_status = "INVALID"

\* C10: from an absent results file, a record that holds a metric entry has
\* score_status "SCORED".
C10_MetricsImplyScored ==
    HasMetric(file) => GetEq(file.rec, "score_status", "SCORED")

====
